---- MODULE Spec2Model ----
(***************************************************************************)
(* Model of src/multi_demarche_manager.py: the MultiDemarcheManager that   *)
(* loads a configuration document, builds the registry of demarches,       *)
(* stages os.environ for one demarche at a time and drives the external    *)
(* synchronisation collaborator.                                           *)
(*                                                                         *)
(* Python strings are sequences of symbols (a symbol is a one-element TLA+ *)
(* string, or an atom such as "BATCH_SIZE" for a long name).  Other Python *)
(* values are tagged records, so that a value of the wrong type is seen    *)
(* where the code would raise TypeError, AttributeError or KeyError.       *)
(***************************************************************************)
EXTENDS Integers, Sequences, FiniteSets, TLC

(* ------------------------------------------------------------------ *)
(* Bounds of the exploration                                          *)
(* ------------------------------------------------------------------ *)
MaxJobs == 2
MaxIds == 2
MaxCalls == 2
MaxChunks == 3
MaxItems == 2

(* ------------------------------------------------------------------ *)
(* Python values                                                      *)
(* ------------------------------------------------------------------ *)
PStr(s) == [t |-> "str", s |-> s]
PInt(n) == [t |-> "int", n |-> n]
PBool(b) == [t |-> "bool", b |-> b]
PNone == [t |-> "none"]
PList(l) == [t |-> "list", l |-> l]
PDict(d) == [t |-> "dict", d |-> d]

EmptyDict == PDict(<<>>)

\* bool(v)
Truthy(v) ==
  CASE v.t = "none" -> FALSE
    [] v.t = "bool" -> v.b
    [] v.t = "int" -> v.n # 0
    [] v.t = "str" -> Len(v.s) > 0
    [] v.t = "list" -> Len(v.l) > 0
    [] v.t = "dict" -> DOMAIN v.d # {}

\* d.get(key, default) on a tagged dict
DictGet(v, key, default) == IF key \in DOMAIN v.d THEN v.d[key] ELSE default

\* text.startswith('${')
StartsWithMarker(s) == Len(s) >= 2 /\ s[1] = "$" /\ s[2] = "{"

Digits == <<"0", "1", "2", "3", "4", "5", "6", "7", "8", "9">>

RECURSIVE NatToStr(_)
NatToStr(n) ==
  IF n < 10 THEN <<Digits[n + 1]>>
  ELSE NatToStr(n \div 10) \o <<Digits[(n % 10) + 1]>>

\* str(v) for the scalar values that occur in the documents
PyStr(v) ==
  CASE v.t = "str" -> v.s
    [] v.t = "int" -> IF v.n < 0 THEN <<"-">> \o NatToStr(-v.n) ELSE NatToStr(v.n)
    [] v.t = "bool" -> IF v.b THEN <<"T", "r", "u", "e">> ELSE <<"F", "a", "l", "s", "e">>
    [] v.t = "none" -> <<"N", "o", "n", "e">>

\* str.lower(), symbol by symbol
LowerSym(c) ==
  CASE c = "T" -> "t"
    [] c = "F" -> "f"
    [] c = "N" -> "n"
    [] c = "X" -> "x"
    [] c = "K" -> "k"
    [] OTHER -> c

Lower(s) == [i \in 1..Len(s) |-> LowerSym(s[i])]

\* ','.join(items) for a sequence of strings
RECURSIVE Join(_)
Join(items) ==
  IF Len(items) = 0 THEN <<>>
  ELSE IF Len(items) = 1 THEN items[1]
  ELSE items[1] \o <<",">> \o Join(Tail(items))

(* ------------------------------------------------------------------ *)
(* Placeholder resolution                                             *)
(* ------------------------------------------------------------------ *)
\* index of the first "}" at or after j, 0 when there is none
RECURSIVE FindClose(_, _)
FindClose(text, j) ==
  IF j > Len(text) THEN 0
  ELSE IF text[j] = "}" THEN j
  ELSE FindClose(text, j + 1)

\* the pattern \$\{([^}]+)\} matches at position i
MatchAt(text, i) ==
  /\ i + 1 <= Len(text)
  /\ text[i] = "$"
  /\ text[i + 1] = "{"
  /\ FindClose(text, i + 2) > i + 2

\* os.getenv(var_name, ""): an undefined name gives the empty text
replace_var_empty_when_absent(var_name, env) ==
  IF var_name \in DOMAIN env THEN env[var_name] ELSE <<>>

\* os.getenv(var_name, "${var_name}")
replace_var(var_name, env) ==
  IF var_name \in DOMAIN env THEN env[var_name]
  ELSE <<"$", "{">> \o var_name \o <<"}">>

\* re.sub over the text, leftmost non-overlapping matches from position i
RECURSIVE SubFrom(_, _, _)
SubFrom(text, i, env) ==
  IF i > Len(text) THEN <<>>
  ELSE IF MatchAt(text, i)
       THEN LET c == FindClose(text, i + 2)
            IN replace_var(SubSeq(text, i + 2, c - 1), env) \o SubFrom(text, c + 1, env)
       ELSE <<text[i]>> \o SubFrom(text, i + 1, env)

resolve_env_vars(text, env) == SubFrom(text, 1, env)

RECURSIVE resolve_dict_env_vars(_, _)
\* a resolver that resolves the keys of a mapping as well
resolve_dict_env_vars_and_keys(data, env) ==
  CASE data.t = "dict" ->
         PDict([key \in {resolve_env_vars(k, env) : k \in DOMAIN data.d} |->
                  LET source == CHOOSE k \in DOMAIN data.d : resolve_env_vars(k, env) = key
                  IN resolve_dict_env_vars(data.d[source], env)])
    [] data.t = "list" ->
         PList([k \in 1..Len(data.l) |-> resolve_dict_env_vars(data.l[k], env)])
    [] data.t = "str" -> PStr(resolve_env_vars(data.s, env))
    [] OTHER -> data

resolve_dict_env_vars(data, env) ==
  CASE data.t = "dict" ->
         PDict([key \in DOMAIN data.d |-> resolve_dict_env_vars(data.d[key], env)])
    [] data.t = "list" ->
         PList([k \in 1..Len(data.l) |-> resolve_dict_env_vars(data.l[k], env)])
    [] data.t = "str" -> PStr(resolve_env_vars(data.s, env))
    [] OTHER -> data

\* some ${...} placeholder is left in the text
HasMarker(s) == \E i \in 1..Len(s) : MatchAt(s, i)

(* ------------------------------------------------------------------ *)
(* Names of the process environment                                   *)
(* ------------------------------------------------------------------ *)
DEMARCHES_API_TOKEN == <<"DEMARCHES_API_TOKEN">>
DEMARCHES_API_URL == <<"DEMARCHES_API_URL">>
DEMARCHE_NUMBER == <<"DEMARCHE_NUMBER">>
GRIST_BASE_URL == <<"GRIST_BASE_URL">>
GRIST_API_KEY == <<"GRIST_API_KEY">>
GRIST_DOC_ID == <<"GRIST_DOC_ID">>
DATE_DEPOT_DEBUT == <<"DATE_DEPOT_DEBUT">>
DATE_DEPOT_FIN == <<"DATE_DEPOT_FIN">>
STATUTS_DOSSIERS == <<"STATUTS_DOSSIERS">>
GROUPES_INSTRUCTEURS == <<"GROUPES_INSTRUCTEURS">>
BATCH_SIZE == <<"BATCH_SIZE">>
MAX_WORKERS == <<"MAX_WORKERS">>
PARALLEL == <<"PARALLEL">>

CredentialSlots == {DEMARCHES_API_TOKEN, DEMARCHES_API_URL, DEMARCHE_NUMBER}
GristSlots == {GRIST_BASE_URL, GRIST_API_KEY, GRIST_DOC_ID}
FilterSlots == {DATE_DEPOT_DEBUT, DATE_DEPOT_FIN, STATUTS_DOSSIERS, GROUPES_INSTRUCTEURS}
TuningSlots == {BATCH_SIZE, MAX_WORKERS, PARALLEL}
Slots == CredentialSlots \cup GristSlots \cup FilterSlots \cup TuningSlots

DefaultApiUrl == <<"https://www.demarches-simplifiees.fr/api/v2/graphql">>
DefaultBatchSize == 50
DefaultMaxWorkers == 3

EmptyEnv == [k \in {} |-> <<>>]

\* os.environ[key] = value
Put(env, key, value) == [k \in DOMAIN env \cup {key} |-> IF k = key THEN value ELSE env[k]]

\* load_dotenv(override=...): the variables of the .env file enter the environment
load_dotenv(env, file, override) ==
  [k \in DOMAIN env \cup DOMAIN file |->
     IF k \in DOMAIN file /\ (override \/ k \notin DOMAIN env) THEN file[k] ELSE env[k]]

(* ------------------------------------------------------------------ *)
(* The inputs: environment, .env files and configuration documents    *)
(* ------------------------------------------------------------------ *)
\* the environment the process is started with
ProcessEnv == (<<"T">> :> <<"b">>) @@ (<<"K">> :> <<"k">>)

\* contents of the .env file
DotenvFiles ==
  { EmptyEnv,
    (DEMARCHES_API_TOKEN :> <<"e">>) @@ (BATCH_SIZE :> <<"9">>) @@ (<<"T">> :> <<"z">>) }

\* the grist block of the document
GristBlocks ==
  { PDict([base_url |-> PStr(<<"g">>), api_key |-> PStr(<<"$", "{", "K", "}">>),
           doc_id |-> PStr(<<"d">>)]),
    PDict([base_url |-> PStr(<<"g">>), api_key |-> PStr(<<"$", "{", "X", "}">>),
           doc_id |-> PStr(<<"d">>)]),
    PDict([base_url |-> PStr(<<"g">>), api_key |-> PStr(<<"k">>)]) }

\* the entries a demarches list is made of
JobEntries ==
  { PDict([number |-> PInt(1), name |-> PStr(<<"n1">>), api_token |-> PStr(<<"a">>)]),
    PDict([number |-> PInt(2), name |-> PStr(<<"n2">>),
           api_token |-> PStr(<<"$", "{", "T", "}">>), api_url |-> PStr(<<"u">>),
           enabled |-> PBool(TRUE),
           sync_config |-> PDict([batch_size |-> PInt(7), parallel |-> PBool(FALSE)]),
           filters |-> PDict([date_depot_debut |-> PStr(<<"d1">>),
                              statuts_dossiers |-> PList(<<PStr(<<"s">>), PStr(<<"t">>)>>),
                              groupes_instructeurs |-> PList(<<PInt(4), PInt(15)>>)])]),
    PDict([number |-> PInt(2), name |-> PStr(<<"n3">>), api_token |-> PStr(<<"c">>),
           enabled |-> PBool(FALSE)]),
    PDict([number |-> PInt(3), name |-> PStr(<<"n4">>),
           api_token |-> PStr(<<"$", "{", "X", "}">>)]),
    PDict([number |-> PInt(3), name |-> PStr(<<"n5">>), api_token |-> PStr(<<>>)]),
    PDict([number |-> PInt(4), name |-> PStr(<<"n6">>),
           api_token |-> PStr(<<"p", "$", "{", "X", "}">>)]),
    PDict([number |-> PInt(5), name |-> PStr(<<"n7">>), api_token |-> PStr(<<"f">>),
           filters |-> PDict([date_depot_debut |-> PInt(2024)])]) }

SeqsUpTo(S, n) == UNION {[1..k -> S] : k \in 0..n}

Documents ==
  { PDict([grist |-> g, demarches |-> PList(l)]) :
      g \in GristBlocks, l \in SeqsUpTo(JobEntries, MaxJobs) }

(* ------------------------------------------------------------------ *)
(* Loading                                                            *)
(* ------------------------------------------------------------------ *)
\* _load_config with a test of required sections that stops after the first one
load_config_first_section_only(doc, env) ==
  LET config == resolve_dict_env_vars(doc, env)
  IN IF config.t = "dict" /\ "grist" \in DOMAIN config.d
     THEN [exc |-> FALSE, config |-> config]
     ELSE [exc |-> TRUE, config |-> PNone]

\* _load_config: [exc, config]; a file that is missing or is not JSON raises at
\* lines 100-101, a document without one of the two sections at line 110
load_config(doc, env) ==
  LET config == resolve_dict_env_vars(doc, env)
  IN IF config.t = "dict" /\ {"grist", "demarches"} \subseteq DOMAIN config.d
     THEN [exc |-> FALSE, config |-> config]
     ELSE [exc |-> TRUE, config |-> PNone]

DemarcheConfig(data, api_token) ==
  [number |-> data.d["number"].n,
   name |-> data.d["name"].s,
   api_token |-> api_token,
   api_url |-> DictGet(data, "api_url", PStr(DefaultApiUrl)),
   enabled |-> DictGet(data, "enabled", PBool(TRUE)),
   sync_config |-> DictGet(data, "sync_config", EmptyDict),
   filters |-> DictGet(data, "filters", EmptyDict)]

\* the token test of the loading loop: the entry is skipped
TokenRejected(api_token) == StartsWithMarker(api_token)

\* the loop of _load_demarches over the entries k.. : [exc, demarches]
RECURSIVE LoadFrom(_, _)
LoadFrom(entries, k) ==
  IF k > Len(entries) THEN [exc |-> FALSE, demarches |-> <<>>]
  ELSE LET data == entries[k]
           api_token == DictGet(data, "api_token", PStr(<<>>))
           rest == LoadFrom(entries, k + 1)
       IN IF api_token.t # "str" THEN [exc |-> TRUE, demarches |-> <<>>]
          ELSE IF TokenRejected(api_token.s) THEN rest
          ELSE IF rest.exc THEN rest
          ELSE [exc |-> FALSE,
                demarches |-> <<DemarcheConfig(data, api_token.s)>> \o rest.demarches]

load_demarches(config) ==
  IF "demarches" \notin DOMAIN config.d \/ config.d["demarches"].t # "list"
  THEN [exc |-> TRUE, demarches |-> <<>>]
  ELSE LoadFrom(config.d["demarches"].l, 1)

(* ------------------------------------------------------------------ *)
(* State                                                              *)
(* ------------------------------------------------------------------ *)
VARIABLES
  document,         \* the configuration document on disk
  dotenvFile,       \* the .env file
  collab,           \* which queries_config module the installation has
  environ,          \* os.environ
  queries_config,   \* module state of queries_config
  config,           \* self.config
  demarches,        \* self.demarches
  pc,               \* position of the running method
  op,               \* the method that runs
  demarche_numbers, \* argument of sync_specific_demarches
  force_disabled,   \* argument of sync_specific_demarches
  enabled_demarches,\* local of sync_all_demarches
  i,                \* loop position (1-based)
  results,          \* local result list, returned at the end
  now,              \* time.time()
  calls,            \* number of direct calls made so far
  validation,       \* outcome of the last validate_configuration call
  trace,            \* history of staging calls, collaborator calls and pauses
  argv,             \* command line of main, CalledAsLibrary when main does not run
  exit_code,        \* value main returned, NotExited before
  call_arg,         \* argument of a direct call of a resolver method
  call_ret          \* value that call returned

vars ==
  <<document, dotenvFile, collab, environ, queries_config, config, demarches, pc, op,
    demarche_numbers, force_disabled, enabled_demarches, i, results, now, calls,
    validation, trace, argv, exit_code, call_arg, call_ret>>

CalledAsLibrary == [t |-> "none"]
NotExited == 0 - 1

(* ------------------------------------------------------------------ *)
(* Registry lookups                                                   *)
(* ------------------------------------------------------------------ *)
\* a get_enabled_demarches that forgets the test of the enabled flag
get_enabled_demarches_unfiltered(registry) == registry

\* get_enabled_demarches
get_enabled_demarches(registry) == SelectSeq(registry, LAMBDA d : Truthy(d.enabled))

\* get_demarche_config: position of the first demarche with this number, 0 for None
get_demarche_config(registry, demarche_number) ==
  IF \E k \in 1..Len(registry) : registry[k].number = demarche_number
  THEN CHOOSE k \in 1..Len(registry) :
         /\ registry[k].number = demarche_number
         /\ \A j \in 1..(k - 1) : registry[j].number # demarche_number
  ELSE 0

(* ------------------------------------------------------------------ *)
(* set_environment_for_demarche                                       *)
(* ------------------------------------------------------------------ *)
\* the value of an expression that raised
Raised == [t |-> "raise"]

\* os.environ[key] = value: TypeError unless value is a str; nothing happens
\* once an exception is on its way
SetEnv(st, key, value) ==
  IF st.exc THEN st
  ELSE IF value.t # "str" THEN [st EXCEPT !.exc = TRUE]
  ELSE [st EXCEPT !.env = Put(st.env, key, value.s)]

\* d[key], KeyError when absent
Subscript(v, key) == IF key \in DOMAIN v.d THEN v.d[key] ELSE Raised

\* ','.join(v)
JoinValue(v) ==
  CASE v.t = "list" ->
         IF \A k \in 1..Len(v.l) : v.l[k].t = "str"
         THEN PStr(Join([k \in 1..Len(v.l) |-> v.l[k].s]))
         ELSE Raised
    [] v.t = "str" -> PStr(Join([k \in 1..Len(v.s) |-> <<v.s[k]>>]))
    [] OTHER -> Raised

\* ','.join(str(g) for g in v)
JoinStrValue(v) ==
  CASE v.t = "list" -> PStr(Join([k \in 1..Len(v.l) |-> PyStr(v.l[k])]))
    [] v.t = "str" -> PStr(Join([k \in 1..Len(v.s) |-> <<v.s[k]>>]))
    [] OTHER -> Raised

\* what executing the body of the queries_config module leaves in the module
ModuleBody(env) ==
  [loaded |-> TRUE,
   API_TOKEN |-> IF DEMARCHES_API_TOKEN \in DOMAIN env
                 THEN PStr(env[DEMARCHES_API_TOKEN]) ELSE PNone,
   API_URL |-> IF DEMARCHES_API_URL \in DOMAIN env
               THEN PStr(env[DEMARCHES_API_URL]) ELSE PStr(DefaultApiUrl),
   current |-> IF collab = "dac_env" /\ DEMARCHES_API_TOKEN \in DOMAIN env
               THEN [token |-> PStr(env[DEMARCHES_API_TOKEN]),
                     url |-> IF DEMARCHES_API_URL \in DOMAIN env
                             THEN PStr(env[DEMARCHES_API_URL]) ELSE PStr(DefaultApiUrl)]
               ELSE [token |-> PNone, url |-> PNone]]

NotImported == [loaded |-> FALSE, API_TOKEN |-> PNone, API_URL |-> PNone,
                current |-> [token |-> PNone, url |-> PNone]]

\* hasattr(queries_config, 'DemarcheAPIConfig')
HasDemarcheAPIConfig == collab \in {"dac_unset", "dac_env"}

\* lines 213-215
stage_credentials(st, demarche_config, demarche_number) ==
  SetEnv(SetEnv(SetEnv(st,
    DEMARCHES_API_TOKEN, PStr(demarche_config.api_token)),
    DEMARCHES_API_URL, demarche_config.api_url),
    DEMARCHE_NUMBER, PStr(PyStr(PInt(demarche_number))))

\* importlib.reload(queries_config) followed by the two assignments after it
reload_queries_config(st, demarche_config) ==
  [ModuleBody(st.env) EXCEPT !.API_TOKEN = PStr(demarche_config.api_token),
                             !.API_URL = demarche_config.api_url]

\* lines 217-253
refresh_queries_config(st, demarche_config) ==
  IF st.exc \/ collab = "absent" THEN st
  ELSE LET imported == IF st.qc.loaded THEN st.qc ELSE ModuleBody(st.env)
           assigned == [imported EXCEPT !.API_TOKEN = PStr(demarche_config.api_token),
                                        !.API_URL = demarche_config.api_url]
           configured == IF HasDemarcheAPIConfig
                         THEN [assigned EXCEPT !.current =
                                 [token |-> PStr(demarche_config.api_token),
                                  url |-> demarche_config.api_url]]
                         ELSE assigned
       IN [st EXCEPT !.qc = reload_queries_config([st EXCEPT !.qc = configured],
                                                  demarche_config)]

\* lines 255-260
reload_dotenv(st) ==
  IF st.exc THEN st ELSE [st EXCEPT !.env = load_dotenv(st.env, dotenvFile, TRUE)]

\* lines 262-266; get_grist_config copies the grist block of the configuration
stage_grist(st) ==
  LET grist_config == config.d["grist"]
  IN IF st.exc THEN st
     ELSE IF grist_config.t # "dict" THEN [st EXCEPT !.exc = TRUE]
     ELSE SetEnv(SetEnv(SetEnv(st,
            GRIST_BASE_URL, Subscript(grist_config, "base_url")),
            GRIST_API_KEY, Subscript(grist_config, "api_key")),
            GRIST_DOC_ID, Subscript(grist_config, "doc_id"))

\* lines 268-273
stage_filters(st, demarche_config) ==
  LET filters == demarche_config.filters
  IN IF st.exc THEN st
     ELSE IF filters.t # "dict" THEN [st EXCEPT !.exc = TRUE]
     ELSE SetEnv(SetEnv(SetEnv(SetEnv(st,
            DATE_DEPOT_DEBUT, DictGet(filters, "date_depot_debut", PStr(<<>>))),
            DATE_DEPOT_FIN, DictGet(filters, "date_depot_fin", PStr(<<>>))),
            STATUTS_DOSSIERS, JoinValue(DictGet(filters, "statuts_dossiers", PList(<<>>)))),
            GROUPES_INSTRUCTEURS,
              JoinStrValue(DictGet(filters, "groupes_instructeurs", PList(<<>>))))

\* lines 275-279
stage_tuning(st, demarche_config) ==
  LET sync_config == demarche_config.sync_config
  IN IF st.exc THEN st
     ELSE IF sync_config.t # "dict" THEN [st EXCEPT !.exc = TRUE]
     ELSE SetEnv(SetEnv(SetEnv(st,
            BATCH_SIZE, PStr(PyStr(DictGet(sync_config, "batch_size", PInt(DefaultBatchSize))))),
            MAX_WORKERS, PStr(PyStr(DictGet(sync_config, "max_workers", PInt(DefaultMaxWorkers))))),
            PARALLEL, PStr(Lower(PyStr(DictGet(sync_config, "parallel", PBool(TRUE))))))

\* outcomes of the connectivity probe of lines 283-325
ProbeOutcomes == {"confirmed", "inaccessible", "http_error", "exception"}

\* a probe part that reports an HTTP error as a failed staging
probe_result_http_fatal(outcome) == outcome # "http_error"

\* the value the method returns at the end of the probe part: lines 312, 318, 321
\* and 325
probe_result(outcome) ==
  CASE outcome = "confirmed" -> TRUE
    [] outcome = "inaccessible" -> TRUE
    [] outcome = "http_error" -> TRUE
    [] outcome = "exception" -> TRUE

\* the token test of line 205
TokenInvalid(api_token) == Len(api_token) = 0 \/ StartsWithMarker(api_token)

\* the whole method: [env, qc, exc, ret]; each block of the method works on the
\* state the block before it left (after1 .. after6 hold that one state)
set_environment_for_demarche(env, qc, demarche_number, outcome) ==
  LET k == get_demarche_config(demarches, demarche_number)
      unchanged == [env |-> env, qc |-> qc, exc |-> FALSE, ret |-> FALSE]
  IN IF k = 0 THEN unchanged
     ELSE IF TokenInvalid(demarches[k].api_token) THEN unchanged
     ELSE LET demarche_config == demarches[k]
              s0 == [env |-> env, qc |-> qc, exc |-> FALSE]
              after1 == {stage_credentials(s0, demarche_config, demarche_number)}
              after2 == {refresh_queries_config(s1, demarche_config) : s1 \in after1}
              after3 == {reload_dotenv(s2) : s2 \in after2}
              after4 == {stage_grist(s3) : s3 \in after3}
              after5 == {stage_filters(s4, demarche_config) : s4 \in after4}
              after6 == {stage_tuning(s5, demarche_config) : s5 \in after5}
          IN CHOOSE r \in {[env |-> s6.env, qc |-> s6.qc, exc |-> s6.exc,
                            ret |-> ~s6.exc /\ probe_result(outcome)] : s6 \in after6} :
               TRUE

(* ------------------------------------------------------------------ *)
(* validate_configuration                                             *)
(* ------------------------------------------------------------------ *)
GristKeys == <<"base_url", "api_key", "doc_id">>

\* the loop over the grist keys from position k: [exc, reported]
RECURSIVE ValidateGrist(_, _)
ValidateGrist(grist_config, k) ==
  IF k > Len(GristKeys) THEN [exc |-> FALSE, reported |-> <<>>]
  ELSE LET key == GristKeys[k]
           value == DictGet(grist_config, key, PNone)
           rest == ValidateGrist(grist_config, k + 1)
       IN IF ~Truthy(value) THEN [rest EXCEPT !.reported = <<key>> \o @]
          ELSE IF value.t # "str" THEN [exc |-> TRUE, reported |-> <<>>]
          ELSE IF StartsWithMarker(value.s) THEN [rest EXCEPT !.reported = <<key>> \o @]
          ELSE rest

\* the numbers of the demarches reported as "Token manquant"
ReportedDemarches(registry) ==
  LET bad == SelectSeq(registry, LAMBDA d : TokenInvalid(d.api_token))
  IN [k \in 1..Len(bad) |-> bad[k].number]

\* the whole method: [exc, ret, grist, reported]
validate_configuration(cfg, registry) ==
  LET grist_config == cfg.d["grist"]
  IN IF grist_config.t # "dict"
     THEN [exc |-> TRUE, ret |-> FALSE, grist |-> <<>>, reported |-> <<>>]
     ELSE LET g == ValidateGrist(grist_config, 1)
              reported == ReportedDemarches(registry)
          IN IF g.exc
             THEN [exc |-> TRUE, ret |-> FALSE, grist |-> <<>>, reported |-> <<>>]
             ELSE [exc |-> FALSE,
                   ret |-> Len(g.reported) = 0 /\ Len(reported) = 0,
                   grist |-> g.reported,
                   reported |-> reported]

(* ------------------------------------------------------------------ *)
(* The collaborator and the results                                   *)
(* ------------------------------------------------------------------ *)
SleepSeconds == 2

\* what process_demarche_for_grist_optimized can do, and how long it takes
CollabOutcomes ==
  { [kind |-> "return", value |-> TRUE],
    [kind |-> "return", value |-> FALSE],
    [kind |-> "raise", msg |-> <<"boom">>] }

Durations == {3}

SyncResult(number, name, success, errors, duration) ==
  [demarche_number |-> number, demarche_name |-> name, success |-> success,
   dossiers_processed |-> 0, errors |-> errors, duration_seconds |-> duration]

NotFoundError == <<"Demarche non trouvee dans la configuration">>
StagingError == <<"Echec de la configuration de l'environnement">>
SyncErrorPrefix == <<"Erreur lors de la synchronisation : ">>

\* _sync_single_demarche with an except branch that drops the error message
sync_single_demarche_no_message(demarche, outcome, start_time, end_time) ==
  SyncResult(demarche.number, demarche.name,
             IF outcome.kind = "return" THEN outcome.value ELSE FALSE, <<>>,
             end_time - start_time)

\* _sync_single_demarche, given what the collaborator does
sync_single_demarche(demarche, outcome, start_time, end_time) ==
  IF outcome.kind = "return"
  THEN SyncResult(demarche.number, demarche.name, outcome.value, <<>>,
                  end_time - start_time)
  ELSE SyncResult(demarche.number, demarche.name, FALSE,
                  <<SyncErrorPrefix \o outcome.msg>>, end_time - start_time)

\* the arguments the collaborator is called with (lines 461-474)
CollabArgs(demarche) ==
  [number |-> demarche.number,
   parallel |-> DictGet(demarche.sync_config, "parallel", PBool(TRUE)),
   batch_size |-> DictGet(demarche.sync_config, "batch_size", PInt(DefaultBatchSize)),
   max_workers |-> DictGet(demarche.sync_config, "max_workers", PInt(DefaultMaxWorkers))]

\* history records: a staging call and what it left, a collaborator call and what
\* it saw, a pause; pos is the loop position of the caller (0 for a direct call)
StageEvent(pos, number, r) ==
  [e |-> "stage", pos |-> pos, number |-> number, ret |-> r.ret, exc |-> r.exc,
   env |-> r.env, qc |-> r.qc]

SyncEvent(pos, demarche, outcome) ==
  [e |-> "sync", pos |-> pos, number |-> demarche.number, args |-> CollabArgs(demarche),
   env |-> environ, outcome |-> outcome]

SleepEvent(pos) == [e |-> "sleep", pos |-> pos, seconds |-> SleepSeconds]

\* the result appended when staging returned False (lines 344-351, 409-416)
staging_failed_result(number, name) ==
  SyncResult(number, name, FALSE, <<StagingError>>, 0)

\* the result for an unknown number, built with the message of the staging failure
not_found_result_wrong_error(demarche_number) ==
  SyncResult(demarche_number, <<"Demarche ">> \o NatToStr(demarche_number), FALSE,
             <<StagingError>>, 0)

\* the result appended for a number that is not in the registry (lines 390-397)
not_found_result(demarche_number) ==
  SyncResult(demarche_number, <<"Demarche ">> \o NatToStr(demarche_number), FALSE,
             <<NotFoundError>>, 0)

\* a caller that does not look at the value the staging call returned
staging_verdict_ignored(r) == IF r.exc THEN "raised" ELSE "staged"

\* what the caller does with the outcome of the staging call (lines 343, 408)
staging_verdict(r) ==
  IF r.exc THEN "raised" ELSE IF ~r.ret THEN "failed" ELSE "staged"

\* the test of line 400 without the force flag
skip_disabled_always(demarche_config, force) == ~Truthy(demarche_config.enabled)

\* the test of line 400
skip_disabled(demarche_config, force) == ~Truthy(demarche_config.enabled) /\ ~force

\* the test of line 359 with <= for <
pause_after_every_job(pos, enabled) == pos <= Len(enabled)

\* the test of line 359
pause_after(pos, enabled) == pos < Len(enabled)

\* the test of line 424
pause_after_specific(demarche_number, numbers) == demarche_number # numbers[Len(numbers)]

(* ------------------------------------------------------------------ *)
(* Initial state and construction                                     *)
(* ------------------------------------------------------------------ *)
Collabs == {"absent", "plain", "dac_unset", "dac_env"}

\* numbers a caller passes: the numbers of the entries and one unknown number
RequestNumbers == {1, 2, 3, 5, 9}

InitWith(documents, dotenvs, collabs) ==
  /\ document \in documents
  /\ dotenvFile \in dotenvs
  /\ collab \in collabs
  /\ environ = ProcessEnv
  /\ queries_config = NotImported
  /\ config = PNone
  /\ demarches = <<>>
  /\ pc = "start"
  /\ op = "none"
  /\ demarche_numbers = <<>>
  /\ force_disabled = FALSE
  /\ enabled_demarches = <<>>
  /\ i = 0
  /\ results = <<>>
  /\ now = 0
  /\ calls = 0
  /\ validation = PNone
  /\ trace = <<>>
  /\ argv = CalledAsLibrary
  /\ exit_code = NotExited
  /\ call_arg = PNone
  /\ call_ret = PNone

Init == InitWith(Documents, DotenvFiles, Collabs)

inputs == <<document, dotenvFile, collab>>
manager == <<config, demarches>>
process == <<environ, queries_config>>
locals == <<op, demarche_numbers, force_disabled, enabled_demarches, i, results>>
cli == <<argv, exit_code>>
resolver == <<call_arg, call_ret>>

\* MultiDemarcheManager.__init__
Construct ==
  /\ pc = "start"
  /\ LET env == load_dotenv(environ, dotenvFile, FALSE)
         lc == load_config(document, env)
         ld == IF lc.exc THEN [exc |-> TRUE, demarches |-> <<>>]
               ELSE load_demarches(lc.config)
     IN /\ environ' = env
        /\ IF lc.exc \/ ld.exc
           THEN /\ pc' = "raised"
                /\ UNCHANGED manager
           ELSE /\ pc' = "idle"
                /\ config' = lc.config
                /\ demarches' = ld.demarches
  /\ UNCHANGED <<inputs, cli, resolver, queries_config, locals, now, calls, validation, trace>>

\* a direct call of set_environment_for_demarche
CallSetEnvironment ==
  /\ pc = "idle"
  /\ calls < MaxCalls
  /\ \E n \in RequestNumbers, outcome \in ProbeOutcomes :
       LET r == set_environment_for_demarche(environ, queries_config, n, outcome)
       IN /\ environ' = r.env
          /\ queries_config' = r.qc
          /\ trace' = Append(trace, StageEvent(0, n, r))
          /\ pc' = IF r.exc THEN "raised" ELSE "idle"
  /\ calls' = calls + 1
  /\ UNCHANGED <<inputs, cli, resolver, manager, locals, now, validation>>

\* a direct call of validate_configuration
CallValidate ==
  /\ pc = "idle"
  /\ calls = 0
  /\ validation = PNone
  /\ LET v == validate_configuration(config, demarches)
     IN /\ validation' = [t |-> "validation", exc |-> v.exc, ret |-> v.ret,
                          grist |-> v.grist, reported |-> v.reported]
        /\ pc' = IF v.exc THEN "raised" ELSE "idle"
  /\ UNCHANGED <<inputs, cli, resolver, manager, process, locals, now, calls, trace>>

(* ------------------------------------------------------------------ *)
(* sync_all_demarches                                                 *)
(* ------------------------------------------------------------------ *)
\* lines 334-337
SyncAllBegin ==
  /\ pc = "idle"
  /\ op = "none"
  /\ op' = "all"
  /\ results' = <<>>
  /\ enabled_demarches' = get_enabled_demarches(demarches)
  /\ i' = 1
  /\ pc' = IF Len(get_enabled_demarches(demarches)) = 0 THEN "all_summary" ELSE "all_stage"
  /\ UNCHANGED <<inputs, cli, resolver, manager, process, demarche_numbers, force_disabled, now, calls,
                 validation, trace>>

\* lines 339-352: the staging of the current demarche
SyncAllStage ==
  /\ pc = "all_stage"
  /\ \E outcome \in ProbeOutcomes :
       LET demarche == enabled_demarches[i]
           r == set_environment_for_demarche(environ, queries_config, demarche.number,
                                             outcome)
       IN /\ environ' = r.env
          /\ queries_config' = r.qc
          /\ trace' = Append(trace, StageEvent(i, demarche.number, r))
          /\ IF staging_verdict(r) = "raised"
             THEN /\ pc' = "raised"
                  /\ UNCHANGED <<i, results>>
             ELSE IF staging_verdict(r) = "failed"
             THEN /\ results' = Append(results,
                        staging_failed_result(demarche.number, demarche.name))
                  /\ i' = i + 1
                  /\ pc' = IF i < Len(enabled_demarches) THEN "all_stage" ELSE "all_summary"
             ELSE /\ pc' = "all_sync"
                  /\ UNCHANGED <<i, results>>
  /\ UNCHANGED <<inputs, cli, resolver, manager, op, demarche_numbers, force_disabled, enabled_demarches,
                 now, calls, validation>>

\* lines 354-359: the collaborator call and the recording of its result
SyncAllSync ==
  /\ pc = "all_sync"
  /\ \E outcome \in CollabOutcomes, elapsed \in Durations :
       LET demarche == enabled_demarches[i]
       IN /\ results' = Append(results,
                 sync_single_demarche(demarche, outcome, now, now + elapsed))
          /\ now' = now + elapsed
          /\ trace' = Append(trace, SyncEvent(i, demarche, outcome))
  /\ IF pause_after(i, enabled_demarches)
     THEN /\ pc' = "all_sleep"
          /\ UNCHANGED i
     ELSE /\ pc' = "all_summary"
          /\ i' = i + 1
  /\ UNCHANGED <<inputs, cli, resolver, manager, process, op, demarche_numbers, force_disabled,
                 enabled_demarches, calls, validation>>

\* lines 360-362
SyncAllSleep ==
  /\ pc = "all_sleep"
  /\ now' = now + SleepSeconds
  /\ trace' = Append(trace, SleepEvent(i))
  /\ i' = i + 1
  /\ pc' = "all_stage"
  /\ UNCHANGED <<inputs, cli, resolver, manager, process, op, demarche_numbers, force_disabled,
                 enabled_demarches, results, calls, validation>>

\* lines 364-367
SyncAllSummary ==
  /\ pc = "all_summary"
  /\ pc' = "done"
  /\ UNCHANGED <<inputs, cli, resolver, manager, process, locals, now, calls, validation, trace>>

(* ------------------------------------------------------------------ *)
(* sync_specific_demarches                                            *)
(* ------------------------------------------------------------------ *)
\* lines 380-382
SyncSpecificBegin ==
  /\ pc = "idle"
  /\ op = "none"
  /\ op' = "specific"
  /\ \E ids \in SeqsUpTo(RequestNumbers, MaxIds), force \in BOOLEAN :
       /\ demarche_numbers' = ids
       /\ force_disabled' = force
       /\ pc' = IF Len(ids) = 0 THEN "sel_summary" ELSE "sel_stage"
  /\ results' = <<>>
  /\ i' = 1
  /\ UNCHANGED <<inputs, cli, resolver, manager, process, enabled_demarches, now, calls, validation,
                 trace>>

\* lines 384-417: lookup of the current number, then its staging
SyncSpecificStage ==
  /\ pc = "sel_stage"
  /\ LET demarche_number == demarche_numbers[i]
         k == get_demarche_config(demarches, demarche_number)
         continue == IF i < Len(demarche_numbers) THEN "sel_stage" ELSE "sel_summary"
     IN IF k = 0
        THEN /\ results' = Append(results, not_found_result(demarche_number))
             /\ i' = i + 1
             /\ pc' = continue
             /\ UNCHANGED <<process, trace>>
        ELSE IF skip_disabled(demarches[k], force_disabled)
        THEN /\ i' = i + 1
             /\ pc' = continue
             /\ UNCHANGED <<process, trace, results>>
        ELSE \E outcome \in ProbeOutcomes :
               LET r == set_environment_for_demarche(environ, queries_config,
                                                     demarche_number, outcome)
               IN /\ environ' = r.env
                  /\ queries_config' = r.qc
                  /\ trace' = Append(trace, StageEvent(i, demarche_number, r))
                  /\ IF staging_verdict(r) = "raised"
                     THEN /\ pc' = "raised"
                          /\ UNCHANGED <<i, results>>
                     ELSE IF staging_verdict(r) = "failed"
                     THEN /\ results' = Append(results,
                                staging_failed_result(demarche_number, demarches[k].name))
                          /\ i' = i + 1
                          /\ pc' = continue
                     ELSE /\ pc' = "sel_sync"
                          /\ UNCHANGED <<i, results>>
  /\ UNCHANGED <<inputs, cli, resolver, manager, op, demarche_numbers, force_disabled, enabled_demarches,
                 now, calls, validation>>

\* lines 419-424: the collaborator call and the recording of its result
SyncSpecificSync ==
  /\ pc = "sel_sync"
  /\ \E outcome \in CollabOutcomes, elapsed \in Durations :
       LET demarche_config == demarches[get_demarche_config(demarches, demarche_numbers[i])]
       IN /\ results' = Append(results,
                 sync_single_demarche(demarche_config, outcome, now, now + elapsed))
          /\ now' = now + elapsed
          /\ trace' = Append(trace, SyncEvent(i, demarche_config, outcome))
  /\ IF pause_after_specific(demarche_numbers[i], demarche_numbers)
     THEN /\ pc' = "sel_sleep"
          /\ UNCHANGED i
     ELSE /\ pc' = IF i < Len(demarche_numbers) THEN "sel_stage" ELSE "sel_summary"
          /\ i' = i + 1
  /\ UNCHANGED <<inputs, cli, resolver, manager, process, op, demarche_numbers, force_disabled,
                 enabled_demarches, calls, validation>>

\* lines 425-427
SyncSpecificSleep ==
  /\ pc = "sel_sleep"
  /\ now' = now + SleepSeconds
  /\ trace' = Append(trace, SleepEvent(i))
  /\ i' = i + 1
  /\ pc' = IF i < Len(demarche_numbers) THEN "sel_stage" ELSE "sel_summary"
  /\ UNCHANGED <<inputs, cli, resolver, manager, process, op, demarche_numbers, force_disabled,
                 enabled_demarches, results, calls, validation>>

\* lines 429-435
SyncSpecificSummary ==
  /\ pc = "sel_summary"
  /\ pc' = "done"
  /\ UNCHANGED <<inputs, cli, resolver, manager, process, locals, now, calls, validation, trace>>

(* ------------------------------------------------------------------ *)
(* main                                                               *)
(* ------------------------------------------------------------------ *)
\* the configuration file does not exist, or is not a JSON document
FileMissing == [t |-> "missing"]
InvalidJson == [t |-> "invalid"]

\* str.split(','): the pieces of the text from position k, piece being the
\* piece read so far
RECURSIVE SplitFrom(_, _, _)
SplitFrom(text, k, piece) ==
  IF k > Len(text) THEN <<piece>>
  ELSE IF text[k] = "," THEN <<piece>> \o SplitFrom(text, k + 1, <<>>)
  ELSE SplitFrom(text, k + 1, Append(piece, text[k]))

Split(text) == SplitFrom(text, 1, <<>>)

\* str.strip()
RECURSIVE Strip(_)
Strip(text) ==
  IF Len(text) = 0 THEN text
  ELSE IF text[1] = " " THEN Strip(Tail(text))
  ELSE IF text[Len(text)] = " " THEN Strip(SubSeq(text, 1, Len(text) - 1))
  ELSE text

IsDigit(c) == \E k \in 1..10 : Digits[k] = c

DigitValue(c) == (CHOOSE k \in 1..10 : Digits[k] = c) - 1

RECURSIVE DecimalValue(_)
DecimalValue(text) ==
  IF Len(text) = 0 THEN 0
  ELSE 10 * DecimalValue(SubSeq(text, 1, Len(text) - 1)) + DigitValue(text[Len(text)])

\* int(cleaned) raises ValueError
IntRaises(cleaned) == \E k \in 1..Len(cleaned) : ~IsDigit(cleaned[k])

\* lines 635-639: [exc, numbers]
parse_demarche_numbers(text) ==
  LET cleaned == SelectSeq([k \in 1..Len(Split(text)) |-> Strip(Split(text)[k])],
                           LAMBDA c : Len(c) > 0)
  IN IF \E k \in 1..Len(cleaned) : IntRaises(cleaned[k])
     THEN [exc |-> TRUE, numbers |-> <<>>]
     ELSE [exc |-> FALSE, numbers |-> [k \in 1..Len(cleaned) |-> DecimalValue(cleaned[k])]]

\* the command lines main is started with
Args(numbers, force, validate_only, dry_run) ==
  [t |-> "args", demarches |-> numbers, force |-> force,
   validate_only |-> validate_only, dry_run |-> dry_run]

ArgVectors ==
  { Args(PNone, FALSE, TRUE, FALSE),
    Args(PNone, FALSE, FALSE, TRUE),
    Args(PNone, FALSE, FALSE, FALSE),
    Args(PStr(<<"1", ",", "2">>), FALSE, FALSE, FALSE),
    Args(PStr(<<" ", "2", " ", ",", "9">>), TRUE, FALSE, FALSE),
    Args(PStr(<<"1", ",", "x">>), FALSE, FALSE, FALSE),
    Args(PStr(<<",">>), FALSE, FALSE, FALSE) }

\* lines 653-659
exit_code_of(sync_results) ==
  LET success_count == Cardinality({k \in 1..Len(sync_results) : sync_results[k].success})
  IN IF success_count > 0 THEN 0 ELSE 1

\* lines 594-606: the existence test and the construction of the manager
MainBegin ==
  /\ pc = "start"
  /\ argv # CalledAsLibrary
  /\ IF document = FileMissing
     THEN /\ exit_code' = 1
          /\ pc' = "exited"
          /\ UNCHANGED <<environ, manager>>
     ELSE LET env == load_dotenv(environ, dotenvFile, FALSE)
              lc == load_config(document, env)
              ld == IF lc.exc THEN [exc |-> TRUE, demarches |-> <<>>]
                    ELSE load_demarches(lc.config)
          IN /\ environ' = env
             /\ config' = IF lc.exc THEN config ELSE lc.config
             /\ demarches' = IF ld.exc THEN demarches ELSE ld.demarches
             /\ pc' = IF lc.exc \/ ld.exc THEN "raised" ELSE "main_validate"
             /\ UNCHANGED exit_code
  /\ UNCHANGED <<inputs, argv, resolver, queries_config, locals, now, calls, validation,
                 trace>>

\* main without the test of line 626: the run goes on to the synchronisation
\* whatever validate_configuration returned
MainValidate_sync_regardless ==
  /\ pc = "main_validate"
  /\ LET v == validate_configuration(config, demarches)
     IN /\ validation' = [t |-> "validation", exc |-> v.exc, ret |-> v.ret,
                          grist |-> v.grist, reported |-> v.reported]
        /\ IF v.exc
           THEN /\ pc' = "raised"
                /\ UNCHANGED exit_code
           ELSE IF argv.validate_only \/ argv.dry_run
           THEN /\ pc' = "exited"
                /\ exit_code' = IF v.ret THEN 0 ELSE 1
           ELSE /\ pc' = "main_sync"
                /\ UNCHANGED exit_code
  /\ UNCHANGED <<inputs, argv, resolver, manager, process, locals, now, calls, trace>>

\* lines 616-628
MainValidate ==
  /\ pc = "main_validate"
  /\ LET v == validate_configuration(config, demarches)
     IN /\ validation' = [t |-> "validation", exc |-> v.exc, ret |-> v.ret,
                          grist |-> v.grist, reported |-> v.reported]
        /\ IF v.exc
           THEN /\ pc' = "raised"
                /\ UNCHANGED exit_code
           ELSE IF argv.validate_only \/ argv.dry_run
           THEN /\ pc' = "exited"
                /\ exit_code' = IF v.ret THEN 0 ELSE 1
           ELSE IF ~v.ret
           THEN /\ pc' = "exited"
                /\ exit_code' = 1
           ELSE /\ pc' = "main_sync"
                /\ UNCHANGED exit_code
  /\ UNCHANGED <<inputs, argv, resolver, manager, process, locals, now, calls, trace>>

\* lines 630-650: the choice of the method and its first lines (334-337, 380-382)
MainSync ==
  /\ pc = "main_sync"
  /\ results' = <<>>
  /\ i' = 1
  /\ IF Truthy(argv.demarches)
     THEN LET parsed == parse_demarche_numbers(argv.demarches.s)
          IN IF parsed.exc
             THEN /\ pc' = "exited"
                  /\ exit_code' = 1
                  /\ UNCHANGED <<op, demarche_numbers, force_disabled, enabled_demarches>>
             ELSE /\ op' = "specific"
                  /\ demarche_numbers' = parsed.numbers
                  /\ force_disabled' = argv.force
                  /\ pc' = IF Len(parsed.numbers) = 0 THEN "sel_summary" ELSE "sel_stage"
                  /\ UNCHANGED <<exit_code, enabled_demarches>>
     ELSE /\ op' = "all"
          /\ enabled_demarches' = get_enabled_demarches(demarches)
          /\ pc' = IF Len(get_enabled_demarches(demarches)) = 0
                   THEN "all_summary" ELSE "all_stage"
          /\ UNCHANGED <<exit_code, demarche_numbers, force_disabled>>
  /\ UNCHANGED <<inputs, argv, resolver, manager, process, now, calls, validation, trace>>

\* lines 652-659
MainExit ==
  /\ pc = "done"
  /\ argv # CalledAsLibrary
  /\ exit_code' = exit_code_of(results)
  /\ pc' = "exited"
  /\ UNCHANGED <<inputs, argv, resolver, manager, process, locals, now, calls, validation,
                 trace>>

\* lines 661-668: an exception raised anywhere below main
MainFatal ==
  /\ pc = "raised"
  /\ argv # CalledAsLibrary
  /\ exit_code' = 1
  /\ pc' = "exited"
  /\ UNCHANGED <<inputs, argv, resolver, manager, process, locals, now, calls, validation,
                 trace>>

(* ------------------------------------------------------------------ *)
(* Direct calls of the resolver methods                               *)
(* ------------------------------------------------------------------ *)
\* the pieces the texts are made of: placeholders of a defined and of an undefined
\* name, an unterminated opening, and single characters
Chunks ==
  { <<"$", "{", "T", "}">>, <<"$", "{", "X", "}">>, <<"$", "{">>, <<"}">>, <<"$">>,
    <<"a">>, <<"T">> }

RECURSIVE Concat(_)
Concat(pieces) == IF Len(pieces) = 0 THEN <<>> ELSE pieces[1] \o Concat(Tail(pieces))

Texts == { Concat(pieces) : pieces \in SeqsUpTo(Chunks, MaxChunks) }

\* the process environments the resolver looks names up in
ResolverEnvs ==
  { ProcessEnv, EmptyEnv, (<<"T">> :> <<"$", "{", "X", "}">>) @@ (<<"X">> :> <<>>) }

\* nested values: scalars, lists, and mappings whose keys are texts
Leaves ==
  { PStr(<<"$", "{", "T", "}">>), PStr(<<"a", "$", "{", "X", "}">>), PInt(7), PBool(TRUE),
    PNone }

Keys == { <<"$", "{", "T", "}">>, <<"k">> }

Lists == { PList(l) : l \in SeqsUpTo(Leaves, MaxItems) }

Dicts == { PDict(f) : f \in UNION { [K -> Leaves] : K \in SUBSET Keys } }

ResolverArguments ==
  { PStr(text) : text \in Texts }
  \cup Leaves \cup Lists \cup Dicts
  \cup { PList(<<d>>) : d \in Dicts }
  \cup { PDict(k :> v) : k \in Keys, v \in Lists \cup Dicts }

\* a call of _resolve_env_vars (lines 64-71)
CallResolveEnvVars ==
  /\ pc = "start"
  /\ call_ret' = IF call_arg.t = "str" THEN PStr(resolve_env_vars(call_arg.s, environ))
                 ELSE call_arg
  /\ pc' = "resolved_text"
  /\ UNCHANGED <<inputs, cli, call_arg, manager, process, locals, now, calls, validation,
                 trace>>

\* a call of _resolve_dict_env_vars (lines 83-90)
CallResolveDictEnvVars ==
  /\ pc = "start"
  /\ call_ret' = resolve_dict_env_vars(call_arg, environ)
  /\ pc' = "resolved_dict"
  /\ UNCHANGED <<inputs, cli, call_arg, manager, process, locals, now, calls, validation,
                 trace>>

(* ------------------------------------------------------------------ *)
(* Specifications                                                     *)
(* ------------------------------------------------------------------ *)
\* the manager used as a library: construction, then direct calls
Next ==
  \/ Construct
  \/ CallValidate
  \/ CallSetEnvironment

Spec == Init /\ [][Next]_vars

\* a run of sync_all_demarches
NextAll ==
  \/ Construct
  \/ SyncAllBegin
  \/ SyncAllStage
  \/ SyncAllSync
  \/ SyncAllSleep
  \/ SyncAllSummary

SpecAll == Init /\ [][NextAll]_vars

\* a run of either orchestrator method, over the documents whose grist block is
\* complete
RunDocuments ==
  { d \in Documents :
      /\ d.d["grist"].d = [base_url |-> PStr(<<"g">>),
                           api_key |-> PStr(<<"$", "{", "K", "}">>),
                           doc_id |-> PStr(<<"d">>)]
      /\ \A k \in 1..Len(d.d["demarches"].l) :
           d.d["demarches"].l[k].d["name"].s \in {<<"n1">>, <<"n2">>, <<"n3">>, <<"n5">>, <<"n7">>} }

InitRuns == InitWith(RunDocuments, {EmptyEnv}, {"plain"})

NextRuns ==
  \/ Construct
  \/ SyncAllBegin
  \/ SyncAllStage
  \/ SyncAllSync
  \/ SyncAllSleep
  \/ SyncAllSummary
  \/ SyncSpecificBegin
  \/ SyncSpecificStage
  \/ SyncSpecificSync
  \/ SyncSpecificSleep
  \/ SyncSpecificSummary

SpecRuns == InitRuns /\ [][NextRuns]_vars

\* a run of sync_all_demarches under the scheduling of a sequential program: the
\* method goes on as long as it has a next step, every call it makes returning or
\* raising
FairDocuments ==
  { d \in RunDocuments :
      \A k \in 1..Len(d.d["demarches"].l) :
        d.d["demarches"].l[k].d["name"].s \in {<<"n1">>, <<"n5">>, <<"n7">>} }

InitFair == InitWith(FairDocuments, {EmptyEnv}, {"plain"})

SpecAllFair == InitFair /\ [][NextAll]_vars /\ WF_vars(NextAll)

\* a run of main: the documents are the file states that make loading fail and
\* the documents made of a grist block and of up to MaxJobs entries
MainEntries ==
  { e \in JobEntries : e.d["name"].s \in {<<"n1">>, <<"n2">>, <<"n3">>, <<"n5">>, <<"n7">>} }

MainGristBlocks ==
  { g \in GristBlocks : "doc_id" \in DOMAIN g.d }

MainDocuments ==
  { FileMissing, InvalidJson,
    PDict([grist |-> PDict([base_url |-> PStr(<<"g">>)])]),
    PDict([demarches |-> PList(<<>>)]),
    PDict([grist |-> PDict([base_url |-> PStr(<<"g">>)]),
           demarches |-> PList(<<PDict([number |-> PInt(1), name |-> PStr(<<"n1">>),
                                        api_token |-> PNone])>>)]) }
  \cup { PDict([grist |-> g, demarches |-> PList(l)]) :
           g \in MainGristBlocks, l \in SeqsUpTo(MainEntries, MaxJobs) }

InitMain ==
  /\ document \in MainDocuments
  /\ dotenvFile \in DotenvFiles
  /\ collab = "plain"
  /\ argv \in ArgVectors
  /\ environ = ProcessEnv
  /\ queries_config = NotImported
  /\ config = PNone
  /\ demarches = <<>>
  /\ pc = "start"
  /\ op = "none"
  /\ demarche_numbers = <<>>
  /\ force_disabled = FALSE
  /\ enabled_demarches = <<>>
  /\ i = 0
  /\ results = <<>>
  /\ now = 0
  /\ calls = 0
  /\ validation = PNone
  /\ trace = <<>>
  /\ exit_code = NotExited
  /\ call_arg = PNone
  /\ call_ret = PNone

NextMain ==
  \/ MainBegin
  \/ MainValidate
  \/ MainSync
  \/ SyncAllStage
  \/ SyncAllSync
  \/ SyncAllSleep
  \/ SyncAllSummary
  \/ SyncSpecificStage
  \/ SyncSpecificSync
  \/ SyncSpecificSleep
  \/ SyncSpecificSummary
  \/ MainExit
  \/ MainFatal

SpecMain == InitMain /\ [][NextMain]_vars

\* the resolver methods called on texts and on nested values
InitResolve ==
  /\ document = FileMissing
  /\ dotenvFile = EmptyEnv
  /\ collab = "absent"
  /\ argv = CalledAsLibrary
  /\ environ \in ResolverEnvs
  /\ queries_config = NotImported
  /\ config = PNone
  /\ demarches = <<>>
  /\ pc = "start"
  /\ op = "none"
  /\ demarche_numbers = <<>>
  /\ force_disabled = FALSE
  /\ enabled_demarches = <<>>
  /\ i = 0
  /\ results = <<>>
  /\ now = 0
  /\ calls = 0
  /\ validation = PNone
  /\ trace = <<>>
  /\ exit_code = NotExited
  /\ call_arg \in ResolverArguments
  /\ call_ret = PNone

NextResolve ==
  \/ CallResolveEnvVars
  \/ CallResolveDictEnvVars

SpecResolve == InitResolve /\ [][NextResolve]_vars

(* ------------------------------------------------------------------ *)
(* Properties                                                         *)
(* ------------------------------------------------------------------ *)
\* the last staging call recorded in the history, when the history ends with one
LastIsStage == Len(trace) >= 1 /\ trace[Len(trace)].e = "stage"

\* the demarche a number designates
Designated(demarche_number) == demarches[get_demarche_config(demarches, demarche_number)]

\* the value each slot of the shared context has to hold for a demarche: its own
\* configuration, the documented defaults and the grist block
ExpectedContext(d, demarche_number) ==
  [slot \in Slots |->
     CASE slot = DEMARCHES_API_TOKEN -> d.api_token
       [] slot = DEMARCHES_API_URL -> d.api_url.s
       [] slot = DEMARCHE_NUMBER -> NatToStr(demarche_number)
       [] slot = GRIST_BASE_URL -> config.d["grist"].d["base_url"].s
       [] slot = GRIST_API_KEY -> config.d["grist"].d["api_key"].s
       [] slot = GRIST_DOC_ID -> config.d["grist"].d["doc_id"].s
       [] slot = DATE_DEPOT_DEBUT -> DictGet(d.filters, "date_depot_debut", PStr(<<>>)).s
       [] slot = DATE_DEPOT_FIN -> DictGet(d.filters, "date_depot_fin", PStr(<<>>)).s
       [] slot = STATUTS_DOSSIERS ->
            LET l == DictGet(d.filters, "statuts_dossiers", PList(<<>>)).l
            IN Join([k \in 1..Len(l) |-> l[k].s])
       [] slot = GROUPES_INSTRUCTEURS ->
            LET l == DictGet(d.filters, "groupes_instructeurs", PList(<<>>)).l
            IN Join([k \in 1..Len(l) |-> NatToStr(l[k].n)])
       [] slot = BATCH_SIZE ->
            NatToStr(DictGet(d.sync_config, "batch_size", PInt(DefaultBatchSize)).n)
       [] slot = MAX_WORKERS ->
            NatToStr(DictGet(d.sync_config, "max_workers", PInt(DefaultMaxWorkers)).n)
       [] slot = PARALLEL ->
            IF DictGet(d.sync_config, "parallel", PBool(TRUE)).b
            THEN <<"t", "r", "u", "e">> ELSE <<"f", "a", "l", "s", "e">>]

\* C1: after set_environment_for_demarche(A) returned True and then
\* set_environment_for_demarche(B) returned True, every slot of the shared context
\* holds the value derived from B's configuration (or the documented default) and
\* the grist block, whatever the .env file contains.
C1_ContextHoldsLastStaged ==
  LET n == Len(trace)
  IN (/\ n >= 2
      /\ trace[n].e = "stage" /\ trace[n].ret
      /\ trace[n - 1].e = "stage" /\ trace[n - 1].ret)
     => \A slot \in Slots :
          /\ slot \in DOMAIN environ
          /\ environ[slot] = ExpectedContext(Designated(trace[n].number), trace[n].number)[slot]

\* C2: after a successful staging call for B, every credential cache the stager
\* handles (queries_config.API_TOKEN, queries_config.API_URL, the current
\* configuration of DemarcheAPIConfig) holds B's token and URL.
C2_CachesHoldLastStaged ==
  (LastIsStage /\ trace[Len(trace)].ret /\ queries_config.loaded)
  => LET d == Designated(trace[Len(trace)].number)
     IN /\ queries_config.API_TOKEN = PStr(d.api_token)
        /\ queries_config.API_URL = d.api_url
        /\ HasDemarcheAPIConfig =>
             queries_config.current = [token |-> PStr(d.api_token), url |-> d.api_url]

\* the suffix of a string from position k
Suffix(s, k) == SubSeq(s, k, Len(s))

\* a string ends with another one
EndsWith(s, e) == Len(s) >= Len(e) /\ Suffix(s, Len(s) - Len(e) + 1) = e

\* C3: in sync_all_demarches a collaborator call that raises gives that job a
\* failed result whose error list is non-empty and carries the message, every other
\* call gives a result with the collaborator's return value, the loop goes on to
\* the next job, and the returned list has one result per enabled job, in order.
C3_CollaboratorFailureIsolated ==
  op = "all" =>
    /\ \A k \in 1..Len(trace) :
         trace[k].e = "sync" =>
           LET ev == trace[k]
           IN /\ Len(results) >= ev.pos
              /\ results[ev.pos].demarche_number = enabled_demarches[ev.pos].number
              /\ IF ev.outcome.kind = "raise"
                 THEN /\ results[ev.pos].success = FALSE
                      /\ Len(results[ev.pos].errors) > 0
                      /\ \E m \in 1..Len(results[ev.pos].errors) :
                           /\ Len(results[ev.pos].errors[m]) > 0
                           /\ EndsWith(results[ev.pos].errors[m], ev.outcome.msg)
                      /\ k = Len(trace) => pc \in {"all_sleep", "all_summary", "done"}
                      /\ ev.pos < Len(enabled_demarches) =>
                           \/ k = Len(trace) /\ pc = "all_sleep"
                           \/ /\ k < Len(trace)
                              /\ trace[k + 1].e = "sleep"
                              /\ k + 1 = Len(trace) => pc = "all_stage"
                              /\ k + 1 < Len(trace) =>
                                   /\ trace[k + 2].e = "stage"
                                   /\ trace[k + 2].pos = ev.pos + 1
                 ELSE /\ results[ev.pos].success = ev.outcome.value
                      /\ results[ev.pos].errors = <<>>
    /\ pc = "done" =>
         /\ Len(results) = Len(get_enabled_demarches(demarches))
         /\ \A k \in 1..Len(results) :
              /\ results[k].demarche_number = get_enabled_demarches(demarches)[k].number
              /\ results[k].demarche_name = get_enabled_demarches(demarches)[k].name

\* a run of sync_all_demarches over two jobs has returned: the collaborator raised
\* for the first one, and the second one was synced with success
C3_Witness ==
  /\ op = "all" /\ pc = "done"
  /\ Len(results) = 2
  /\ results[1].success = FALSE /\ results[1].errors = <<SyncErrorPrefix \o <<"boom">>>>
  /\ results[2].success = TRUE

\* C4: every collaborator call comes right after a staging call for the same
\* number that completed and returned True, and the shared context the collaborator
\* sees is the one that staging call left.
C4_CollaboratorOnlyAfterStaging ==
  /\ \A k \in 1..Len(trace) :
       trace[k].e = "sync" =>
         /\ k > 1
         /\ trace[k - 1].e = "stage"
         /\ trace[k - 1].number = trace[k].number
         /\ trace[k - 1].pos = trace[k].pos
         /\ trace[k - 1].ret
         /\ ~trace[k - 1].exc
         /\ trace[k - 1].env = trace[k].env
  /\ pc \in {"all_sync", "sel_sync"} =>
       /\ LastIsStage
       /\ trace[Len(trace)].ret
       /\ trace[Len(trace)].env = environ
       /\ trace[Len(trace)].pos = i

\* a run has returned in which the collaborator was called for two jobs
C4_Witness ==
  /\ pc = "done"
  /\ Len(trace) = 5
  /\ trace[1].e = "stage" /\ trace[2].e = "sync"
  /\ trace[4].e = "stage" /\ trace[5].e = "sync"
  /\ trace[4].number # trace[1].number

\* the resolved token of an entry of the configuration document
EntryToken(data) == DictGet(data, "api_token", PStr(<<>>)).s

\* a token is non-empty and fully resolved
TokenResolved(token) == Len(token) > 0 /\ ~HasMarker(token)

\* C5: the registry holds exactly the entries of the document whose api_token is
\* non-empty and has no unresolved placeholder in it, in document order.
C5_RegistryKeepsResolvedTokens ==
  config # PNone =>
    LET kept == SelectSeq(config.d["demarches"].l,
                          LAMBDA data : TokenResolved(EntryToken(data)))
    IN /\ Len(demarches) = Len(kept)
       /\ \A k \in 1..Len(kept) : demarches[k] = DemarcheConfig(kept[k], EntryToken(kept[k]))

\* C6: validate_configuration does not raise, returns False whenever a grist field
\* or the api_token of an entry of the loaded document is empty or unresolved,
\* reports every such entry, and returns True only when all of them are complete.
C6_ValidateRejectsIncomplete ==
  validation # PNone =>
    LET grist_config == config.d["grist"]
        grist_ok == \A key \in {"base_url", "api_key", "doc_id"} :
                      /\ key \in DOMAIN grist_config.d
                      /\ TokenResolved(grist_config.d[key].s)
        bad == SelectSeq(config.d["demarches"].l,
                         LAMBDA data : ~TokenResolved(EntryToken(data)))
    IN /\ ~validation.exc
       /\ validation.ret <=> (grist_ok /\ Len(bad) = 0)
       /\ \A k \in 1..Len(bad) :
            \E j \in 1..Len(validation.reported) :
              validation.reported[j] = bad[k].d["number"].n

\* the number is in the registry
Found(demarche_number) == get_demarche_config(demarches, demarche_number) # 0

\* C7: in sync_specific_demarches a requested number that is not in the registry
\* gets one failed result (success False, the "not found" error, duration 0)
\* appended at its turn, nothing is staged, the collaborator is not called, the
\* shared context and the caches stay as they are, and the loop goes on.
C7_NotFoundStep ==
  (pc = "sel_stage" /\ ~Found(demarche_numbers[i])) =>
    /\ Len(results') = Len(results) + 1
    /\ SubSeq(results', 1, Len(results)) = results
    /\ results'[Len(results')].demarche_number = demarche_numbers[i]
    /\ results'[Len(results')].success = FALSE
    /\ results'[Len(results')].errors = <<NotFoundError>>
    /\ results'[Len(results')].duration_seconds = 0
    /\ environ' = environ
    /\ queries_config' = queries_config
    /\ trace' = trace
    /\ now' = now
    /\ i' = i + 1
    /\ pc' = IF i < Len(demarche_numbers) THEN "sel_stage" ELSE "sel_summary"

C7_NotFoundYieldsOneFailure == [][C7_NotFoundStep]_vars

\* sync_specific_demarches([9, 1]) has returned: a failure for the unknown number 9,
\* then the result of the sync of demarche 1
C7_Witness ==
  /\ op = "specific" /\ pc = "done"
  /\ demarche_numbers = <<9, 1>>
  /\ Len(results) = 2
  /\ results[1].demarche_number = 9 /\ ~results[1].success
  /\ results[1].errors = <<NotFoundError>>
  /\ results[2].demarche_number = 1 /\ results[2].success
  /\ Len(trace) = 2

\* the requested number designates a disabled demarche and force_disabled is off
SkippedDisabled(demarche_number) ==
  /\ Found(demarche_number)
  /\ ~Truthy(Designated(demarche_number).enabled)
  /\ ~force_disabled

\* C8: a requested number of a disabled demarche gives no result, no staging call
\* and no collaborator call unless force_disabled is set; with force_disabled it is
\* staged, synced and recorded like an enabled one.  The returned list has one
\* result per requested number that was not skipped, in request order.
C8_DisabledSkippedUnlessForced ==
  op = "specific" =>
    /\ \A k \in 1..Len(trace) :
         trace[k].e \in {"stage", "sync"} => ~SkippedDisabled(trace[k].number)
    /\ pc = "done" =>
         LET kept == SelectSeq(demarche_numbers, LAMBDA n : ~SkippedDisabled(n))
         IN /\ Len(results) = Len(kept)
            /\ \A k \in 1..Len(kept) : results[k].demarche_number = kept[k]
            /\ \A p \in 1..Len(demarche_numbers) :
                 (Found(demarche_numbers[p]) /\ ~SkippedDisabled(demarche_numbers[p])) =>
                   \E k \in 1..Len(trace) :
                     /\ trace[k].e = "stage"
                     /\ trace[k].pos = p
                     /\ trace[k].number = demarche_numbers[p]
                     /\ trace[k].ret =>
                          /\ k < Len(trace)
                          /\ trace[k + 1].e = "sync"
                          /\ trace[k + 1].pos = p

\* sync_specific_demarches([2, 1]) without force has returned, 2 being the number
\* of a disabled demarche: one result, for demarche 1
C8_Witness ==
  /\ op = "specific" /\ pc = "done"
  /\ ~force_disabled
  /\ demarche_numbers = <<2, 1>>
  /\ SkippedDisabled(2)
  /\ Len(results) = 1
  /\ results[1].demarche_number = 1

C10_StagingFailureNeverAborts ==
  op = "all" =>
    \A k \in 1..Len(trace) :
      (trace[k].e = "stage" /\ ~trace[k].ret) =>
        /\ pc # "raised"
        /\ Len(results) >= trace[k].pos
        /\ results[trace[k].pos].demarche_number = trace[k].number
        /\ ~results[trace[k].pos].success
        /\ k < Len(trace) => trace[k + 1].e = "stage"

\* a slot of the shared context has the same state in two environments
SameSlot(env1, env2, slot) ==
  /\ slot \in DOMAIN env1 <=> slot \in DOMAIN env2
  /\ slot \in DOMAIN env1 => env1[slot] = env2[slot]

\* the step is a call of set_environment_for_demarche
IsStagingStep ==
  /\ Len(trace') = Len(trace) + 1
  /\ trace'[Len(trace')].e = "stage"

\* C11: a call of set_environment_for_demarche ends, by returning or by raising,
\* either with every slot of the shared context assigned by this call, or with
\* every slot as it was before the call; never with only some of them assigned.
C11_StagingStep ==
  IsStagingStep =>
    LET ev == trace'[Len(trace')]
    IN \/ /\ ev.ret
          /\ ~ev.exc
          /\ \A slot \in Slots : slot \in DOMAIN environ'
       \/ \A slot \in Slots : SameSlot(environ', environ, slot)

C11_StagingAllOrNothing == [][C11_StagingStep]_vars

\* the number designates a demarche of the registry whose token passes line 205
ValidJob(demarche_number) ==
  /\ Found(demarche_number)
  /\ ~TokenInvalid(Designated(demarche_number).api_token)

\* C12: whatever the connectivity probe does (demarche visible, demarche not
\* visible, HTTP error, exception), a call of set_environment_for_demarche leaves
\* the same shared context and the same caches, raises in the same cases, and
\* returns True once the assignments of a valid job have all been made.
C12_ProbeStep ==
  IsStagingStep =>
    LET ev == trace'[Len(trace')]
    IN \A outcome \in ProbeOutcomes :
         LET r == set_environment_for_demarche(environ, queries_config, ev.number, outcome)
         IN /\ r.env = environ'
            /\ r.qc = queries_config'
            /\ r.exc = ev.exc
            /\ r.ret = ev.ret
            /\ (ValidJob(ev.number) /\ ~r.exc) => r.ret

C12_ProbeNeverFailsStaging == [][C12_ProbeStep]_vars

\* sync_all_demarches has staged a valid job: the call returned True and the
\* collaborator is about to be called
C12_Witness ==
  /\ pc = "all_sync"
  /\ LastIsStage
  /\ ValidJob(trace[Len(trace)].number)
  /\ trace[Len(trace)].ret
  /\ \A slot \in Slots : slot \in DOMAIN environ

\* loading fails at document level: no file, no JSON document, or a document
\* without one of the two required sections
DocumentLevelFailure(doc) ==
  \/ doc = FileMissing
  \/ doc = InvalidJson
  \/ doc.t # "dict"
  \/ ~({"grist", "demarches"} \subseteq DOMAIN doc.d)

\* what a run of main that failed at document level has left behind, the slots of
\* the shared context being those of env
AbortedBeforeSideEffect(env) ==
  /\ pc \in {"raised", "exited"}
  /\ pc = "exited" => exit_code = 1
  /\ trace = <<>>
  /\ results = <<>>
  /\ validation = PNone
  /\ queries_config = NotImported
  /\ \A slot \in Slots : SameSlot(environ, env, slot)

\* C13, as stated: when loading fails at document level main ends with exit code 1,
\* no job is staged, the collaborator is not called and no slot of the shared
\* context is written; loading succeeds exactly when the file exists, parses and
\* has both sections.
C13_DocumentFailureNoSideEffect ==
  (argv # CalledAsLibrary /\ pc # "start") =>
    /\ DocumentLevelFailure(document) => AbortedBeforeSideEffect(ProcessEnv)
    /\ config # PNone <=> ~DocumentLevelFailure(document)

\* C13, amended: as above, except that the slots the .env file defines and the
\* process environment lacks are written by the load_dotenv() of the constructor
\* when the file exists; no other slot is written.
C13_DocumentFailureOnlyDotenv ==
  (argv # CalledAsLibrary /\ pc # "start") =>
    /\ DocumentLevelFailure(document) =>
         AbortedBeforeSideEffect(IF document = FileMissing THEN ProcessEnv
                                 ELSE load_dotenv(ProcessEnv, dotenvFile, FALSE))
    /\ config # PNone <=> ~DocumentLevelFailure(document)

\* main has ended with exit code 1 on a file that is not JSON, the .env file
\* having brought DEMARCHES_API_TOKEN into the environment
C13_Witness ==
  /\ pc = "exited"
  /\ exit_code = 1
  /\ document = InvalidJson
  /\ DEMARCHES_API_TOKEN \in DOMAIN environ
  /\ environ[DEMARCHES_API_TOKEN] = dotenvFile[DEMARCHES_API_TOKEN]
  /\ trace = <<>>

\* the text holds "${" somewhere
ContainsOpening(text) ==
  \E p \in 1..(Len(text) - 1) : text[p] = "$" /\ text[p + 1] = "{"

\* positions p..q of the text are a placeholder ${N}: N is not empty and holds no "}"
Placeholder(text, p, q) ==
  /\ p + 3 <= q
  /\ q <= Len(text)
  /\ text[p] = "$"
  /\ text[p + 1] = "{"
  /\ text[q] = "}"
  /\ \A m \in (p + 2)..(q - 1) : text[m] # "}"

PlaceholderName(text, p, q) == SubSeq(text, p + 2, q - 1)

Placeholders(text) ==
  { pq \in (1..Len(text)) \X (1..Len(text)) : Placeholder(text, pq[1], pq[2]) }

\* C14: for a text S and an environment, _resolve_env_vars returns S when S holds
\* no "${"; it keeps the text before the first placeholder, puts the value of the
\* name in place of the placeholder when the name is defined and keeps the
\* placeholder verbatim when it is not, and resolves the rest of the text in the
\* same way; when no name referenced in S is defined the result is S, and
\* resolving it again gives S.
C14_ResolveKeepsAbsentReplacesPresent ==
  (pc = "resolved_text" /\ call_arg.t = "str") =>
    LET S == call_arg.s
        R == call_ret.s
    IN /\ call_ret.t = "str"
       /\ ~ContainsOpening(S) => R = S
       /\ Placeholders(S) = {} => R = S
       /\ \A pq \in Placeholders(S) :
            (\A other \in Placeholders(S) : pq[1] <= other[1]) =>
              LET N == PlaceholderName(S, pq[1], pq[2])
              IN R = SubSeq(S, 1, pq[1] - 1)
                       \o (IF N \in DOMAIN environ THEN environ[N]
                           ELSE <<"$", "{">> \o N \o <<"}">>)
                       \o resolve_env_vars(SubSeq(S, pq[2] + 1, Len(S)), environ)
       /\ (\A pq \in Placeholders(S) :
             PlaceholderName(S, pq[1], pq[2]) \notin DOMAIN environ) =>
            /\ R = S
            /\ resolve_env_vars(R, environ) = R

\* _resolve_env_vars has returned for a text with an undefined name followed by a
\* defined one: the first placeholder is kept, the second one is replaced
C14_Witness ==
  /\ pc = "resolved_text"
  /\ environ = ProcessEnv
  /\ call_arg = PStr(<<"$", "{", "X", "}", "a", "$", "{", "T", "}">>)
  /\ call_ret = PStr(<<"$", "{", "X", "}", "a", "b">>)

\* b is what a holds once every text leaf is resolved and nothing else is touched
RECURSIVE ShapePreserved(_, _, _)
ShapePreserved(a, b, env) ==
  CASE a.t = "dict" ->
         /\ b.t = "dict"
         /\ DOMAIN b.d = DOMAIN a.d
         /\ \A key \in DOMAIN a.d : ShapePreserved(a.d[key], b.d[key], env)
    [] a.t = "list" ->
         /\ b.t = "list"
         /\ Len(b.l) = Len(a.l)
         /\ \A k \in 1..Len(a.l) : ShapePreserved(a.l[k], b.l[k], env)
    [] a.t = "str" -> b = PStr(resolve_env_vars(a.s, env))
    [] OTHER -> b = a

\* C15: _resolve_dict_env_vars gives a mapping with the same keys for a mapping
\* (a key of the form ${N} stays as it is), a list of the same length and order
\* for a list, the resolved text for a text, and the same value for a number, a
\* boolean and null.
C15_ResolveDictPreservesShape ==
  pc = "resolved_dict" => ShapePreserved(call_arg, call_ret, environ)

\* _resolve_dict_env_vars has returned for a mapping whose key is ${T}, T being
\* defined: the key is kept, the text under it is resolved, the number is not
C15_Witness ==
  /\ pc = "resolved_dict"
  /\ environ = ProcessEnv
  /\ call_arg = PDict((<<"$", "{", "T", "}">> :> PStr(<<"$", "{", "T", "}">>))
                      @@ (<<"k">> :> PInt(7)))
  /\ call_ret = PDict((<<"$", "{", "T", "}">> :> PStr(<<"b">>)) @@ (<<"k">> :> PInt(7)))

\* C16: in validate-only and dry-run mode main returns 0 exactly when
\* validate_configuration returned True; in a sync run it returns 0 exactly when
\* at least one job succeeded, that is when a SyncResult with success True was
\* returned for a job; it returns 1 in every other case.
C16_ExitCode ==
  pc = "exited" =>
    /\ exit_code \in {0, 1}
    /\ IF argv.validate_only \/ argv.dry_run
       THEN exit_code = 0 <=> (validation # PNone /\ ~validation.exc /\ validation.ret)
       ELSE exit_code = 0 <=> \E k \in 1..Len(results) : results[k].success

\* the entries of the loaded document the loader turned into demarches
LoadedEntries ==
  SelectSeq(config.d["demarches"].l, LAMBDA entry : ~TokenRejected(EntryToken(entry)))

\* C17: the list get_enabled_demarches returned holds exactly the demarches of the
\* registry whose enabled flag is True (True being the value of an entry without
\* the flag), in the order of the registry, which is the order of the document;
\* the registry is still the one the loader built.
C17_EnabledInDocumentOrder ==
  op = "all" =>
    LET positions == {k \in 1..Len(demarches) : demarches[k].enabled = PBool(TRUE)}
        nth(j) == CHOOSE k \in positions : Cardinality({m \in positions : m <= k}) = j
    IN /\ Len(enabled_demarches) = Cardinality(positions)
       /\ \A j \in 1..Len(enabled_demarches) : enabled_demarches[j] = demarches[nth(j)]
       /\ Len(demarches) = Len(LoadedEntries)
       /\ \A k \in 1..Len(demarches) :
            /\ demarches[k].number = LoadedEntries[k].d["number"].n
            /\ demarches[k].name = LoadedEntries[k].d["name"].s
            /\ demarches[k].enabled = IF "enabled" \in DOMAIN LoadedEntries[k].d
                                      THEN LoadedEntries[k].d["enabled"] ELSE PBool(TRUE)

\* sync_all_demarches has asked for the enabled demarches of a registry of two: the
\* first one is disabled, the second one has no enabled flag in the document
C17_Witness ==
  /\ op = "all"
  /\ Len(demarches) = 2
  /\ demarches[1].enabled = PBool(FALSE)
  /\ "enabled" \notin DOMAIN LoadedEntries[2].d
  /\ enabled_demarches = <<demarches[2]>>

\* the text a tuning slot holds for the value passed to the collaborator
TuningText(v) == IF v.t = "bool" THEN Lower(PyStr(v)) ELSE PyStr(v)

\* C18: at every call of the collaborator for a demarche J the shared context
\* describes J: the token, endpoint and filter slots hold J's fields, and
\* BATCH_SIZE, MAX_WORKERS and PARALLEL agree with the batch_size, max_workers
\* and parallel arguments of the call; also when two entries of the registry
\* have the same number.
C18_ContextDescribesSyncedJob ==
  \A k \in 1..Len(trace) :
    trace[k].e = "sync" =>
      LET ev == trace[k]
          J == IF op = "all" THEN enabled_demarches[ev.pos]
               ELSE Designated(demarche_numbers[ev.pos])
          expected == ExpectedContext(J, J.number)
      IN /\ ev.args = CollabArgs(J)
         /\ \A slot \in {DEMARCHES_API_TOKEN, DEMARCHES_API_URL} \cup FilterSlots :
              ev.env[slot] = expected[slot]
         /\ ev.env[BATCH_SIZE] = TuningText(ev.args.batch_size)
         /\ ev.env[MAX_WORKERS] = TuningText(ev.args.max_workers)
         /\ ev.env[PARALLEL] = TuningText(ev.args.parallel)

\* C19: in sync_specific_demarches a pause follows a synced job exactly when
\* another job is staged later in the same run: every staging after the first
\* one comes after a pause that followed the previous collaborator call, and no
\* pause follows the last job that is staged.
C19_PauseBetweenStagedJobs ==
  (op = "specific" /\ pc = "done") =>
    \A k \in 1..Len(trace) :
      trace[k].e = "sync" =>
        LET staged_later == \E m \in (k + 1)..Len(trace) : trace[m].e = "stage"
            paused == k < Len(trace) /\ trace[k + 1].e = "sleep"
        IN paused <=> staged_later

\* each enabled job is staged at most once and synced at most once, and the jobs
\* are visited in the order of the list of enabled demarches
VisitedOnceInOrder ==
  /\ \A k \in 1..Len(trace) :
       trace[k].e \in {"stage", "sync"} =>
         /\ trace[k].pos \in 1..Len(enabled_demarches)
         /\ trace[k].number = enabled_demarches[trace[k].pos].number
  /\ \A k, m \in 1..Len(trace) :
       (k < m /\ trace[k].e = trace[m].e) => trace[k].pos < trace[m].pos
  /\ \A k, m \in 1..Len(trace) : k < m => trace[k].pos <= trace[m].pos

\* a step leaves the results already appended as they are
ResultsOnlyAppended ==
  /\ Len(results') >= Len(results)
  /\ SubSeq(results', 1, Len(results)) = results

\* C20: a run of sync_all_demarches, every staging, probe and collaborator call
\* of which returns or raises, reaches Done; each enabled job is staged at most
\* once and synced at most once, the jobs are visited in document order, and a
\* result once appended is never changed or removed.
C20_RunReachesDone ==
  /\ [](op = "all" => VisitedOnceInOrder)
  /\ [][ResultsOnlyAppended]_vars
  /\ (op = "all") ~> (pc = "done")

\* a step that stages a job or invokes the sync collaborator
StagesOrSyncs ==
  /\ Len(trace') > Len(trace)
  /\ trace'[Len(trace')].e \in {"stage", "sync"}

\* validate_configuration has returned True in this process
ValidatedTrue ==
  /\ validation # PNone
  /\ ~validation.exc
  /\ validation.ret

\* a step in which validate_configuration is called
ValidateStep == validation = PNone /\ validation' # PNone

\* C21: in a run of main no job is staged and the sync collaborator is not invoked
\* unless validate_configuration has returned True before in that process; and a
\* call of validate_configuration writes no slot of the process environment and
\* leaves the registry and the loaded configuration as they are.
C21_ValidateBeforeSyncAndPure ==
  [][ /\ (argv # CalledAsLibrary /\ StagesOrSyncs) => ValidatedTrue
      /\ ValidateStep => UNCHANGED <<environ, demarches, config>> ]_vars

\* main in sync mode has validated, staged a job and invoked the collaborator
C21_Witness ==
  /\ argv # CalledAsLibrary
  /\ ~argv.validate_only /\ ~argv.dry_run
  /\ ValidatedTrue
  /\ \E k \in 1..Len(trace) : trace[k].e = "stage"
  /\ \E k \in 1..Len(trace) : trace[k].e = "sync"

====
